---- MODULE Spec2Model ----
(***************************************************************************)
(* Model of src/src/load_balancer.py: the LoadBalancer manager over its    *)
(* SQLite store (tables frontends, backends, servers).  A table is a       *)
(* sequence of rows in rowid order, which is insertion order because no    *)
(* row is ever deleted; the unordered SELECTs of the program are full      *)
(* table scans and return rows in that order.  A row is the record of the  *)
(* fields of its JSON config that some operation reads back.  Fields that  *)
(* are written once and read only by generate_haproxy_cfg (bind address,   *)
(* port, ssl, timeouts, check, max_conn, backup) are left out.             *)
(* Host names and ACL conditions are sequences of one-character strings so *)
(* that Python's substring test is computed, not assumed.                  *)
(* uuid4 ids are modelled as fresh: the n-th row of a table gets the n-th  *)
(* id of its kind.                                                         *)
(***************************************************************************)
EXTENDS Integers, Sequences, FiniteSets, TLC

VARIABLES
    frontends,   \* table frontends: rows [id, name, mode, default_backend, acl_rules]
    backends,    \* table backends: rows [id, name, algorithm, mode]
    servers,     \* table servers: rows [id, backend_id, name, weight, status, counters]
    last,        \* the last call: [op, arg, ret, raised]
    simLog       \* [backend, server] of the latest successive simulate_request calls

vars == <<frontends, backends, servers, last, simLog>>

----------------------------------------------------------------------------
(* Bounds of the model.                                                    *)
MaxFrontends == 1
MaxBackends == 1
MaxServers == 2
MaxAcl == 2
MaxSim == 3

----------------------------------------------------------------------------
(* Python values.                                                          *)
None == "None"

Truthy(x) == x # None /\ x # ""

\* str.upper() on the strings the calls below pass as enum names.
upper(s) ==
    CASE s \in {"up", "UP"} -> "UP"
      [] s = "down" -> "DOWN"
      [] s = "drain" -> "DRAIN"
      [] s = "maint" -> "MAINT"
      [] s = "http" -> "HTTP"
      [] s = "tcp" -> "TCP"
      [] s = "roundrobin" -> "ROUNDROBIN"
      [] s = "leastconn" -> "LEASTCONN"
      [] s = "first" -> "FIRST"
      [] s = "random" -> "RANDOM"
      [] s = "source" -> "SOURCE"
      [] s = "bogus" -> "BOGUS"
      [] OTHER -> s

\* Enum member name -> value, for the three str enums.
Algorithm ==
    [n \in {"ROUNDROBIN", "LEASTCONN", "FIRST", "RANDOM", "SOURCE"} |->
        CASE n = "ROUNDROBIN" -> "roundrobin"
          [] n = "LEASTCONN" -> "leastconn"
          [] n = "FIRST" -> "first"
          [] n = "RANDOM" -> "random"
          [] n = "SOURCE" -> "source"]

ServerStatus ==
    [n \in {"UP", "DOWN", "DRAIN", "MAINT"} |->
        CASE n = "UP" -> "up"
          [] n = "DOWN" -> "down"
          [] n = "DRAIN" -> "drain"
          [] n = "MAINT" -> "maint"]

Mode ==
    [n \in {"HTTP", "TCP"} |->
        CASE n = "HTTP" -> "http"
          [] n = "TCP" -> "tcp"]

\* Python's `a in b` on two strings: a is a contiguous part of b.
StrIn(a, b) ==
    \E i \in 0..(Len(b) - Len(a)) : SubSeq(b, i + 1, i + Len(a)) = a

----------------------------------------------------------------------------
(* Ids.                                                                    *)
FrontendId(n) == "frontend_" \o ToString(n)
BackendId(n) == "backend_" \o ToString(n)
ServerId(n) == "server_" \o ToString(n)

\* Ids that no row has.
MissingFrontend == "frontend_missing"
MissingBackend == "backend_missing"
MissingServer == "server_missing"

Ids(table) == {table[i].id : i \in 1..Len(table)}

\* SELECT ... WHERE id = ?  (fetchone): index of the row, 0 when there is none.
RowOf(table, id) ==
    IF id \in Ids(table)
    THEN CHOOSE i \in 1..Len(table) : table[i].id = id
    ELSE 0

----------------------------------------------------------------------------
(* How a call ends.                                                        *)
Returned(op, arg, ret) == [op |-> op, arg |-> arg, ret |-> ret, raised |-> FALSE]

Raised(op, arg) == [op |-> op, arg |-> arg, ret |-> None, raised |-> TRUE]

Init ==
    /\ frontends = <<>>
    /\ backends = <<>>
    /\ servers = <<>>
    /\ last = Returned("__init__", <<>>, None)
    /\ simLog = <<>>

----------------------------------------------------------------------------
(* The operations that write the store.                                    *)

add_frontend(name, mode) ==
    /\ IF upper(mode) \notin DOMAIN Mode
       THEN /\ last' = Raised("add_frontend", <<name, mode>>)
            /\ UNCHANGED frontends
       ELSE /\ Len(frontends) < MaxFrontends
            /\ LET frontend_id == FrontendId(Len(frontends) + 1) IN
               /\ frontends' = Append(frontends,
                     [id |-> frontend_id, name |-> name, mode |-> Mode[upper(mode)],
                      default_backend |-> None, acl_rules |-> <<>>])
               /\ last' = Returned("add_frontend", <<name, mode>>, frontend_id)
    /\ simLog' = <<>>
    /\ UNCHANGED <<backends, servers>>

set_default_backend(frontend_id, backend_id) ==
    /\ LET row == RowOf(frontends, frontend_id) IN
       IF row = 0
       THEN /\ last' = Returned("set_default_backend", <<frontend_id, backend_id>>, FALSE)
            /\ UNCHANGED frontends
       ELSE /\ frontends' = [frontends EXCEPT ![row].default_backend = backend_id]
            /\ last' = Returned("set_default_backend", <<frontend_id, backend_id>>, TRUE)
    /\ simLog' = <<>>
    /\ UNCHANGED <<backends, servers>>

add_acl(frontend_id, name, condition, use_backend) ==
    /\ LET row == RowOf(frontends, frontend_id) IN
       IF row = 0
       THEN /\ last' = Returned("add_acl",
                                <<frontend_id, name, condition, use_backend>>, FALSE)
            /\ UNCHANGED frontends
       ELSE /\ Len(frontends[row].acl_rules) < MaxAcl
            /\ frontends' = [frontends EXCEPT ![row].acl_rules =
                     Append(@, [name |-> name, condition |-> condition,
                                use_backend |-> use_backend])]
            /\ last' = Returned("add_acl",
                                <<frontend_id, name, condition, use_backend>>, TRUE)
    /\ simLog' = <<>>
    /\ UNCHANGED <<backends, servers>>

add_backend(name, algorithm, mode) ==
    /\ IF upper(algorithm) \notin DOMAIN Algorithm \/ upper(mode) \notin DOMAIN Mode
       THEN /\ last' = Raised("add_backend", <<name, algorithm, mode>>)
            /\ UNCHANGED backends
       ELSE /\ Len(backends) < MaxBackends
            /\ LET backend_id == BackendId(Len(backends) + 1) IN
               /\ backends' = Append(backends,
                     [id |-> backend_id, name |-> name,
                      algorithm |-> Algorithm[upper(algorithm)],
                      mode |-> Mode[upper(mode)]])
               /\ last' = Returned("add_backend", <<name, algorithm, mode>>, backend_id)
    /\ simLog' = <<>>
    /\ UNCHANGED <<frontends, servers>>

add_server(backend_id, name, weight) ==
    /\ Len(servers) < MaxServers
    /\ LET server_id == ServerId(Len(servers) + 1) IN
       /\ servers' = Append(servers,
             [id |-> server_id, backend_id |-> backend_id, name |-> name,
              weight |-> weight, status |-> ServerStatus["UP"],
              current_sessions |-> 0, bytes_in |-> 0, bytes_out |-> 0])
       /\ last' = Returned("add_server", <<backend_id, name, weight>>, server_id)
    /\ simLog' = <<>>
    /\ UNCHANGED <<frontends, backends>>

\* set_server_status without the lookup of the status name in ServerStatus.
set_server_status_Unchecked(server_id, status) ==
    /\ LET row == RowOf(servers, server_id) IN
       IF row = 0
       THEN /\ last' = Returned("set_server_status", <<server_id, status>>, FALSE)
            /\ UNCHANGED servers
       ELSE /\ servers' = [servers EXCEPT ![row].status = status]
            /\ last' = Returned("set_server_status", <<server_id, status>>, TRUE)
    /\ simLog' = <<>>
    /\ UNCHANGED <<frontends, backends>>

set_server_status(server_id, status) ==
    /\ IF upper(status) \notin DOMAIN ServerStatus
       THEN /\ last' = Returned("set_server_status", <<server_id, status>>, FALSE)
            /\ UNCHANGED servers
       ELSE LET row == RowOf(servers, server_id) IN
            IF row = 0
            THEN /\ last' = Returned("set_server_status", <<server_id, status>>, FALSE)
                 /\ UNCHANGED servers
            ELSE /\ servers' = [servers EXCEPT ![row].status = status]
                 /\ last' = Returned("set_server_status", <<server_id, status>>, TRUE)
    /\ simLog' = <<>>
    /\ UNCHANGED <<frontends, backends>>

\* The external health/stats feed of the data model: it rewrites the counters
\* of a stored server row; the manager itself never writes them after add_server.
StatsFeed(server_id, sessions, b_in, b_out) ==
    /\ RowOf(servers, server_id) # 0
    /\ servers' = [servers EXCEPT
            ![RowOf(servers, server_id)].current_sessions = sessions,
            ![RowOf(servers, server_id)].bytes_in = b_in,
            ![RowOf(servers, server_id)].bytes_out = b_out]
    /\ last' = Returned("feed", <<server_id>>, None)
    /\ simLog' = <<>>
    /\ UNCHANGED <<frontends, backends>>

----------------------------------------------------------------------------
(* The operations that only read the store.                                *)

\* d[k] = v on a Python dict.
DictSet(d, k, v) == [x \in (DOMAIN d) \cup {k} |-> IF x = k THEN v ELSE d[x]]

EmptyDict == [x \in {} |-> None]

\* SELECT config FROM servers WHERE backend_id = ?
ServersOf(backend_id) == SelectSeq(servers, LAMBDA s : s.backend_id = backend_id)

\* for acl in acl_rules: if host in condition: backend_id = use_backend; break
RECURSIVE AclLoop(_, _, _)
AclLoop(acl_rules, host, backend_id) ==
    IF acl_rules = <<>>
    THEN backend_id
    ELSE IF StrIn(host, Head(acl_rules).condition)
         THEN Head(acl_rules).use_backend
         ELSE AclLoop(Tail(acl_rules), host, backend_id)

\* The server query without its condition on the status.
PickServer_AnyStatus(backend_id) ==
    LET rows == ServersOf(backend_id) IN
    IF rows = <<>> THEN None ELSE Head(rows).name

\* SELECT ... WHERE backend_id = ? AND json_extract(config, '$.status') = 'up' LIMIT 1
PickServer(backend_id) ==
    LET rows == SelectSeq(ServersOf(backend_id), LAMBDA s : s.status = "up") IN
    IF rows = <<>> THEN None ELSE Head(rows).name

SimResult(src_ip, host, path) ==
    LET result == [src_ip |-> src_ip, host |-> host, path |-> path,
                   routed_to_frontend |-> None, routed_to_backend |-> None,
                   routed_to_server |-> None] IN
    IF frontends = <<>>
    THEN result
    ELSE LET frontend_dict == Head(frontends)
             backend_id == AclLoop(frontend_dict.acl_rules, host,
                                   frontend_dict.default_backend)
         IN [result EXCEPT
                !.routed_to_frontend = frontend_dict.id,
                !.routed_to_backend = backend_id,
                !.routed_to_server =
                    IF Truthy(backend_id) THEN PickServer(backend_id) ELSE None]

\* The log keeps the latest MaxSim entries.
Logged(log, entry) ==
    IF Len(log) < MaxSim THEN Append(log, entry) ELSE Append(Tail(log), entry)

simulate_request(src_ip, host, path) ==
    /\ LET result == SimResult(src_ip, host, path) IN
       /\ last' = Returned("simulate_request", <<src_ip, host, path>>, result)
       /\ simLog' = Logged(simLog, [backend |-> result.routed_to_backend,
                                    server |-> result.routed_to_server])
    /\ UNCHANGED <<frontends, backends, servers>>

\* The loop of get_stats adding up the counters of the servers in status up only.
RECURSIVE StatsLoop_UpOnly(_, _)
StatsLoop_UpOnly(rows, backend_stats) ==
    IF rows = <<>>
    THEN backend_stats
    ELSE LET srv_dict == Head(rows) IN
         StatsLoop_UpOnly(Tail(rows),
            [backend_stats EXCEPT
                !.servers = DictSet(@, srv_dict.name,
                    [status |-> srv_dict.status,
                     sessions |-> srv_dict.current_sessions,
                     bytes_in |-> srv_dict.bytes_in,
                     bytes_out |-> srv_dict.bytes_out]),
                !.total_sessions =
                    IF srv_dict.status = "up" THEN @ + srv_dict.current_sessions ELSE @,
                !.total_bytes_in =
                    IF srv_dict.status = "up" THEN @ + srv_dict.bytes_in ELSE @,
                !.total_bytes_out =
                    IF srv_dict.status = "up" THEN @ + srv_dict.bytes_out ELSE @])

\* The loop of get_stats over the server rows of one backend.
RECURSIVE StatsLoop(_, _)
StatsLoop(rows, backend_stats) ==
    IF rows = <<>>
    THEN backend_stats
    ELSE LET srv_dict == Head(rows) IN
         StatsLoop(Tail(rows),
            [backend_stats EXCEPT
                !.servers = DictSet(@, srv_dict.name,
                    [status |-> srv_dict.status,
                     sessions |-> srv_dict.current_sessions,
                     bytes_in |-> srv_dict.bytes_in,
                     bytes_out |-> srv_dict.bytes_out]),
                !.total_sessions = @ + srv_dict.current_sessions,
                !.total_bytes_in = @ + srv_dict.bytes_in,
                !.total_bytes_out = @ + srv_dict.bytes_out])

\* stats["backends"] of get_stats.
StatsResult(backend_id) ==
    LET bids == IF Truthy(backend_id) THEN {backend_id} ELSE Ids(backends) IN
    [bid \in bids \cap Ids(backends) |->
        StatsLoop(ServersOf(bid),
            [name |-> backends[RowOf(backends, bid)].name,
             servers |-> EmptyDict,
             total_sessions |-> 0, total_bytes_in |-> 0, total_bytes_out |-> 0])]

get_stats(backend_id) ==
    /\ last' = Returned("get_stats", <<backend_id>>, StatsResult(backend_id))
    /\ simLog' = <<>>
    /\ UNCHANGED <<frontends, backends, servers>>

\* The loop of get_server_weights over the server rows of one backend.
RECURSIVE WeightsLoop(_, _)
WeightsLoop(rows, weights) ==
    IF rows = <<>>
    THEN weights
    ELSE LET srv_dict == Head(rows) IN
         WeightsLoop(Tail(rows),
            IF srv_dict.status = "up"
            THEN DictSet(weights, srv_dict.name, srv_dict.weight)
            ELSE weights)

get_server_weights(backend_id) ==
    /\ last' = Returned("get_server_weights", <<backend_id>>,
                        WeightsLoop(ServersOf(backend_id), EmptyDict))
    /\ simLog' = <<>>
    /\ UNCHANGED <<frontends, backends, servers>>

----------------------------------------------------------------------------
(* Inputs of the calls.                                                    *)

\* "host contains foo" and "host contains foobar"
CondFoo == <<"h","o","s","t"," ","c","o","n","t","a","i","n","s"," ","f","o","o">>
CondFoobar == CondFoo \o <<"b","a","r">>
Conditions == {CondFoo, CondFoobar}

\* "foobar.com", "foobar", "foo"
HostFoobarCom == <<"f","o","o","b","a","r",".","c","o","m">>
HostFoobar == <<"f","o","o","b","a","r">>
HostFoo == <<"f","o","o">>
Hosts == {HostFoobarCom, HostFoobar, HostFoo}

FrontendArgs == Ids(frontends) \cup {MissingFrontend}
BackendArgs == Ids(backends) \cup {MissingBackend}
ServerArgs == Ids(servers) \cup {MissingServer}

----------------------------------------------------------------------------
(* Spec: every writing operation and simulate_request, over ACL lists of   *)
(* two conditions and three hosts.                                         *)
Next ==
    \/ \E mode \in {"http", "bogus"} : add_frontend("web", mode)
    \/ \E algorithm \in {"roundrobin", "bogus"} : add_backend("pool", algorithm, "http")
    \/ \E f \in FrontendArgs, b \in BackendArgs : set_default_backend(f, b)
    \/ \E f \in FrontendArgs, c \in Conditions, b \in BackendArgs : add_acl(f, "acl", c, b)
    \/ \E b \in BackendArgs : add_server(b, "A", 1)
    \/ \E s \in ServerArgs, status \in {"down", "up", "bogus"} : set_server_status(s, status)
    \/ \E host \in Hosts, path \in {"/", "/api"} : simulate_request("10.0.0.1", host, path)

Spec == Init /\ [][Next]_vars

(* SpecSelect: server selection behind one default backend, over every     *)
(* algorithm, weights 0..2 and every way of naming a status.               *)
StatusArgs == {"up", "down", "drain", "maint", "UP"}

NextSelect ==
    \/ add_frontend("web", "http")
    \/ \E algorithm \in {"roundrobin", "leastconn", "first", "random", "source"} :
          add_backend("pool", algorithm, "http")
    \/ \E f \in Ids(frontends), b \in Ids(backends) : set_default_backend(f, b)
    \/ \E b \in Ids(backends), name \in {"A", "B"}, weight \in {0, 1, 2} :
          add_server(b, name, weight)
    \/ \E s \in Ids(servers), status \in StatusArgs : set_server_status(s, status)
    \/ simulate_request("10.0.0.1", HostFoo, "/")

SpecSelect == Init /\ [][NextSelect]_vars

(* SpecStats: counters fed from outside, statistics and effective weights. *)
Samples == {<<3, 100, 10>>, <<5, 200, 20>>, <<7, 300, 30>>}

NextStats ==
    \/ add_frontend("web", "http")
    \/ add_backend("pool", "leastconn", "http")
    \/ \E f \in Ids(frontends), b \in Ids(backends) : set_default_backend(f, b)
    \/ \E b \in Ids(backends), name \in {"S1", "S2"}, weight \in {1, 2} :
          add_server(b, name, weight)
    \/ \E s \in Ids(servers), status \in {"up", "down", "maint", "UP"} :
          set_server_status(s, status)
    \/ \E s \in Ids(servers), c \in Samples : StatsFeed(s, c[1], c[2], c[3])
    \/ \E b \in {None} \cup BackendArgs : get_stats(b)
    \/ \E b \in BackendArgs : get_server_weights(b)
    \/ simulate_request("10.0.0.1", HostFoo, "/")

SpecStats == Init /\ [][NextStats]_vars

----------------------------------------------------------------------------
(* Vocabulary of the claims.                                               *)

Min(S) == CHOOSE x \in S : \A y \in S : x <= y

LastIs(op) == last.op = op /\ ~last.raised

\* Every reference to a backend names a stored backend.
NoDangling ==
    /\ \A i \in 1..Len(frontends) :
          /\ frontends[i].default_backend # None
                => frontends[i].default_backend \in Ids(backends)
          /\ \A j \in 1..Len(frontends[i].acl_rules) :
                frontends[i].acl_rules[j].use_backend \in Ids(backends)
    /\ \A i \in 1..Len(servers) : servers[i].backend_id \in Ids(backends)

\* A condition "host contains X" is satisfied by a host of which X is a part.
HostContains == <<"h","o","s","t"," ","c","o","n","t","a","i","n","s"," ">>

Satisfies(host, condition) ==
    /\ Len(condition) >= Len(HostContains)
    /\ SubSeq(condition, 1, Len(HostContains)) = HostContains
    /\ StrIn(SubSeq(condition, Len(HostContains) + 1, Len(condition)), host)

\* The frontend a simulate_request result was routed through.
RoutedFrontend(result) == frontends[RowOf(frontends, result.routed_to_frontend)]

\* The rules of a frontend, by position, whose condition the host satisfies.
Matching(frontend, host) ==
    {i \in 1..Len(frontend.acl_rules) : Satisfies(host, frontend.acl_rules[i].condition)}

----------------------------------------------------------------------------
\* C1: whenever simulate_request has routed a request through a frontend (of a
\* topology whose backend references all resolve), routed_to_backend is the
\* use_backend of the first rule in declaration order whose condition the host
\* satisfies; with rules "host contains foo", "host contains foobar" and host
\* "foobar.com" that is rule 1.
C1_FirstMatchWins ==
    (LastIs("simulate_request") /\ NoDangling /\ last.ret.routed_to_frontend # None) =>
        LET frontend == RoutedFrontend(last.ret)
            M == Matching(frontend, last.arg[2])
        IN M # {} =>
              last.ret.routed_to_backend = frontend.acl_rules[Min(M)].use_backend

\* C2: whenever simulate_request has returned (topology whose backend
\* references all resolve), it has not raised; if the frontend has a default
\* backend and no ACL rules, routed_to_backend is that default backend; if no
\* rule's condition is satisfied by the host and no default backend is set,
\* routed_to_backend and routed_to_server are both None.
C2_DefaultBackend ==
    (last.op = "simulate_request" /\ NoDangling) =>
        /\ ~last.raised
        /\ last.ret.routed_to_frontend = None =>
              last.ret.routed_to_backend = None /\ last.ret.routed_to_server = None
        /\ last.ret.routed_to_frontend # None =>
              LET frontend == RoutedFrontend(last.ret) IN
              /\ (frontend.acl_rules = <<>> /\ frontend.default_backend # None) =>
                    last.ret.routed_to_backend = frontend.default_backend
              /\ (Matching(frontend, last.arg[2]) = {} /\ frontend.default_backend = None) =>
                    /\ last.ret.routed_to_backend = None
                    /\ last.ret.routed_to_server = None

\* C4: in every reachable state each ACL rule's use_backend, each non-null
\* default_backend and each server's backend_id names a stored backend.
C4_ReferencesResolve == NoDangling

\* C10: a step that is set_default_backend or add_acl with a frontend id the
\* store does not hold, or set_server_status with a server id the store does
\* not hold or with a status that names none of up/down/drain/maint, returns
\* False, does not raise and leaves frontends, backends and servers unchanged.
NotFoundCall ==
    \/ /\ last'.op \in {"set_default_backend", "add_acl"}
       /\ last'.arg[1] \notin Ids(frontends)
    \/ /\ last'.op = "set_server_status"
       /\ \/ last'.arg[1] \notin Ids(servers)
          \/ upper(last'.arg[2]) \notin {"UP", "DOWN", "DRAIN", "MAINT"}

C10_NotFoundIsNoOp ==
    [][NotFoundCall =>
          /\ last'.ret = FALSE
          /\ ~last'.raised
          /\ frontends' = frontends
          /\ backends' = backends
          /\ servers' = servers]_vars

\* A status that names no ServerStatus has been refused for a stored server
\* while the store holds a frontend, a backend and a server.
C10_Witness ==
    /\ last.op = "set_server_status"
    /\ last.arg = <<ServerId(1), "bogus">>
    /\ last.ret = FALSE
    /\ Len(frontends) >= 1 /\ Len(backends) >= 1 /\ Len(servers) >= 1

----------------------------------------------------------------------------
(* Servers as the claims speak of them.                                    *)

\* Positions in the servers table of the servers of a backend.
Members(backend_id) == {i \in 1..Len(servers) : servers[i].backend_id = backend_id}

\* The server has been put in status Up, however the status was spelled.
IsUp(server) == upper(server.status) = "UP"

\* Every stored status is spelled as a ServerStatus value.
Canonical ==
    \A i \in 1..Len(servers) : servers[i].status \in {"up", "down", "drain", "maint"}

RECURSIVE SumOver(_, _)
SumOver(I, f) ==
    IF I = {} THEN 0
    ELSE LET i == CHOOSE j \in I : TRUE IN f[i] + SumOver(I \ {i}, f)

\* How many of the latest n entries of the log name the server.
Count(name, n) ==
    Cardinality({k \in (Len(simLog) - n + 1)..Len(simLog) : simLog[k].server = name})

----------------------------------------------------------------------------
\* C3: whenever simulate_request has returned, a reported routed_to_server is
\* the name of a server of the routed backend that is Up (never one that is
\* only Down, Drain or Maint), and if the routed backend has no Up server
\* routed_to_server is None, whatever the backend's algorithm.
C3_OnlyUpServers ==
    LastIs("simulate_request") =>
        LET b == last.ret.routed_to_backend
            srv == last.ret.routed_to_server
            up == {i \in Members(b) : IsUp(servers[i])}
        IN /\ srv # None => \E i \in up : servers[i].name = srv
           /\ up = {} => srv = None

\* The first server of the routed backend is Down, the second is Up under
\* another name, and the second is the one reported.
C3_Witness ==
    /\ LastIs("simulate_request")
    /\ last.ret.routed_to_backend = BackendId(1)
    /\ Len(servers) = 2
    /\ Members(BackendId(1)) = {1, 2}
    /\ servers[1].status = "down" /\ servers[2].status = "up"
    /\ servers[1].name # servers[2].name
    /\ last.ret.routed_to_server = servers[2].name

\* C5: when the latest three successive simulate_request calls were routed to
\* one RoundRobin backend whose servers are A (weight 1) then B (weight 2),
\* both Up, they selected A once and B twice.
C5_WeightedRoundRobin ==
    (/\ Len(simLog) >= 3
     /\ \E r \in 1..Len(backends) :
           /\ backends[r].algorithm = "roundrobin"
           /\ \A k \in (Len(simLog) - 2)..Len(simLog) : simLog[k].backend = backends[r].id
           /\ LET rows == ServersOf(backends[r].id) IN
              /\ Len(rows) = 2
              /\ rows[1].name = "A" /\ rows[1].weight = 1 /\ rows[1].status = "up"
              /\ rows[2].name = "B" /\ rows[2].weight = 2 /\ rows[2].status = "up")
    => (Count("A", 3) = 1 /\ Count("B", 3) = 2)

\* C6: whenever simulate_request has routed to a LeastConn backend (statuses
\* stored in canonical spelling) that has an Up server, routed_to_server is
\* the first, in declared order, of the Up servers with the lowest
\* current_sessions.
C6_LeastConn ==
    (/\ LastIs("simulate_request")
     /\ Canonical
     /\ last.ret.routed_to_backend \in Ids(backends)
     /\ backends[RowOf(backends, last.ret.routed_to_backend)].algorithm = "leastconn")
    => LET up == {i \in Members(last.ret.routed_to_backend) : IsUp(servers[i])}
           least == {i \in up : \A j \in up :
                        servers[i].current_sessions <= servers[j].current_sessions}
       IN up # {} => last.ret.routed_to_server = servers[Min(least)].name

\* C7: whenever simulate_request has reported a routed_to_server, the routed
\* backend has a server of that name whose weight is positive.
C7_NoZeroWeight ==
    (LastIs("simulate_request") /\ last.ret.routed_to_server # None) =>
        \E i \in Members(last.ret.routed_to_backend) :
            /\ servers[i].name = last.ret.routed_to_server
            /\ servers[i].weight > 0

\* C8: whenever get_server_weights(backend_id) has returned, its keys are
\* exactly the names of the servers of that backend that are Up, and each
\* value is the weight of an Up server of that name.
C8_WeightsOfUpServers ==
    LastIs("get_server_weights") =>
        LET up == {i \in Members(last.arg[1]) : IsUp(servers[i])} IN
        /\ DOMAIN last.ret = {servers[i].name : i \in up}
        /\ \A n \in DOMAIN last.ret :
              \E i \in up : servers[i].name = n /\ servers[i].weight = last.ret[n]

\* C9: whenever get_stats has returned, it reports every stored backend it was
\* asked about, and that backend's total_sessions, total_bytes_in and
\* total_bytes_out are the sums of current_sessions, bytes_in and bytes_out
\* over all its servers, whatever their status.
C9_TotalsOverAllServers ==
    LastIs("get_stats") =>
        LET asked == IF last.arg[1] = None THEN Ids(backends)
                     ELSE {last.arg[1]} \cap Ids(backends)
        IN /\ DOMAIN last.ret = asked
           /\ \A bid \in asked :
                 /\ last.ret[bid].total_sessions =
                       SumOver(Members(bid),
                               [i \in 1..Len(servers) |-> servers[i].current_sessions])
                 /\ last.ret[bid].total_bytes_in =
                       SumOver(Members(bid), [i \in 1..Len(servers) |-> servers[i].bytes_in])
                 /\ last.ret[bid].total_bytes_out =
                       SumOver(Members(bid), [i \in 1..Len(servers) |-> servers[i].bytes_out])

\* Sessions 3 and 5 with bytes_in 100 and 200, the second server Down: the
\* totals reported are 8 and 300.
C9_Witness ==
    /\ LastIs("get_stats")
    /\ last.arg = <<BackendId(1)>>
    /\ Len(servers) = 2
    /\ Members(BackendId(1)) = {1, 2}
    /\ servers[1].current_sessions = 3 /\ servers[1].bytes_in = 100
    /\ servers[2].current_sessions = 5 /\ servers[2].bytes_in = 200
    /\ servers[1].status = "up" /\ servers[2].status = "down"
    /\ last.ret[BackendId(1)].total_sessions = 8
    /\ last.ret[BackendId(1)].total_bytes_in = 300

----------------------------------------------------------------------------
\* C11: in every reachable state each stored server status is one of 'up',
\* 'down', 'drain', 'maint'; once set_server_status has returned True for a
\* status naming Up in any letter case, the server is stored as 'up', so that
\* get_server_weights lists every server that is Up and simulate_request
\* reports a server whenever the routed backend has one that is Up.
C11_StatusStoredCanonical ==
    /\ \A i \in 1..Len(servers) :
          servers[i].status \in {ServerStatus[n] : n \in DOMAIN ServerStatus}
    /\ (LastIs("set_server_status") /\ last.ret = TRUE /\ upper(last.arg[2]) = "UP") =>
          servers[RowOf(servers, last.arg[1])].status = ServerStatus["UP"]
    /\ LastIs("get_server_weights") =>
          \A i \in Members(last.arg[1]) :
              IsUp(servers[i]) => servers[i].name \in DOMAIN last.ret
    /\ LastIs("simulate_request") =>
          ((\E i \in Members(last.ret.routed_to_backend) : IsUp(servers[i]))
              => last.ret.routed_to_server # None)

====
